---- MODULE Spec2Model ----
(***************************************************************************)
(* to_utf8.py: rewrite the text files of a directory tree as UTF-8.        *)
(*                                                                         *)
(* A file is modelled by what the program's patterns and decoders can tell *)
(* apart in it:                                                            *)
(*   toks   the sequence of its markup fragments, each one of Tok;         *)
(*   bytes  the class of its non-markup payload:                           *)
(*            "ascii"   only ASCII bytes,                                  *)
(*            "utf8"    non-ASCII characters, valid UTF-8,                 *)
(*            "legacy"  bytes >= 0x80 that are not valid UTF-8,            *)
(*            "bom"     the two bytes FF FE, a UTF-16 byte-order mark, and *)
(*                      nothing else,                                      *)
(*            "moji"    valid UTF-8 holding text that was transcoded from  *)
(*                      UTF-8 as if it were a single-byte encoding.        *)
(* The fragments (each closes with ">", so no pattern spans two of them):  *)
(*   txt   <title>x</title>            no charset, no head                 *)
(*   head  <head>                                                          *)
(*   mU    <meta charset="utf-8">      the canonical declaration           *)
(*   mUq   <meta charset='UTF-8'>                                          *)
(*   mL    <meta charset="windows-1252">                                   *)
(*   mH    <meta http-equiv="Content-Type"                                 *)
(*               content="text/html; charset=iso-8859-1">                  *)
(*   mS    <meta charset=" windows-1252">   (a blank after the quote)      *)
(***************************************************************************)
EXTENDS Integers, Sequences, FiniteSets, TLC

\* ------------------------------------------------------------- bounds
\* MaxLen: fragments in the file of a one-file directory (the directory whose
\* second run is followed); DirLen: fragments in each file of a larger one;
\* NFiles: files in the directory.
MaxLen == 2
DirLen == 1
NFiles == 2

Tok == {"txt", "head", "mU", "mUq", "mL", "mH", "mS"}
InitBytes == {"ascii", "utf8", "legacy"}

RECURSIVE SeqsUpTo(_)
SeqsUpTo(n) ==
  IF n = 0 THEN {<<>>}
  ELSE LET S == SeqsUpTo(n - 1)
       IN  S \cup {Append(s, t) : s \in {x \in S : Len(x) = n - 1}, t \in Tok}

\* A file that holds a UTF-16 byte-order mark and nothing else.
Bom == [toks |-> <<>>, bytes |-> "bom"]

\* The contents a file of at most n fragments may hold when the run starts.
Contents(n) == [toks : SeqsUpTo(n), bytes : InitBytes] \cup {Bom}

\* The empty file, b"": what open(..., "w") leaves before anything is written.
Empty == [toks |-> <<>>, bytes |-> "ascii"]

\* --------------------------------------------------- tables and patterns
\* str.upper() on the encoding names that occur (a name not listed is
\* already upper case).
upper(s) ==
  CASE s = "utf-8"        -> "UTF-8"
    [] s = "windows-1252" -> "WINDOWS-1252"
    [] s = "iso-8859-1"   -> "ISO-8859-1"
    [] OTHER              -> s

ENC_MAP ==
  [ k \in {"UTF-8", "UTF8", "US-ASCII", "ASCII",
            "WINDOWS-1252", "CP-1252", "CP1252",
            "WINDOWS-1250", "CP-1250", "CP1250",
            "ISO-8859-1", "ISO8859-1", "ISO-8859-2", "ISO8859-2",
            "ISO-8859-3", "ISO8859-3", "ISO-8859-9", "ISO8859-9",
            "ISO-8859-13", "ISO8859-13", "ISO-8859-15", "ISO8859-15",
            "IBM865", "CP865", "MAC-CENTRALEUROPE", "MACCENTRALEUROPE"} |->
      CASE k \in {"UTF-8", "UTF8", "US-ASCII", "ASCII"}          -> "UTF-8"
        [] k \in {"WINDOWS-1252", "CP-1252", "CP1252"}           -> "CP1252"
        [] k \in {"WINDOWS-1250", "CP-1250", "CP1250"}           -> "CP1250"
        [] k \in {"ISO-8859-1", "ISO8859-1"}                     -> "ISO-8859-1"
        [] k \in {"ISO-8859-2", "ISO8859-2"}                     -> "ISO-8859-2"
        [] k \in {"ISO-8859-3", "ISO8859-3"}                     -> "ISO-8859-3"
        [] k \in {"ISO-8859-9", "ISO8859-9"}                     -> "ISO-8859-9"
        [] k \in {"ISO-8859-13", "ISO8859-13"}                   -> "ISO-8859-13"
        [] k \in {"ISO-8859-15", "ISO8859-15"}                   -> "ISO-8859-15"
        [] k \in {"IBM865", "CP865"}                             -> "CP865"
        [] k \in {"MAC-CENTRALEUROPE", "MACCENTRALEUROPE"}       -> "MAC-CENTRALEUROPE" ]

\* The fragments META_CHARSET_RE matches, with the name its group captures.
META_CHARSET_RE ==
  ("mU" :> "utf-8") @@ ("mUq" :> "UTF-8") @@ ("mL" :> "windows-1252") @@
  ("mH" :> "iso-8859-1") @@ ("mS" :> "windows-1252")

\* The fragments HTTP_EQUIV_RE matches, with the name its group captures.
HTTP_EQUIV_RE == ("mH" :> "iso-8859-1")

\* The fragments each pattern of ensure_meta_utf8 matches: the two it
\* replaces (lines 70 and 74) and the one it searches for (line 77).
META_ANY_SUB == {"mU", "mUq", "mL", "mH"}
META_HTTP_SUB == {"mH"}
META_UTF8_SEARCH == {"mU"}

\* ------------------------------------------------------- pure functions
is_valid_utf8(b) == b.bytes \notin {"legacy", "bom"}

normalize(enc) ==
  IF enc = "" THEN ""
  ELSE LET e == upper(enc)
       IN  IF e \in DOMAIN ENC_MAP THEN ENC_MAP[e] ELSE e

\* re.search over the bytes: the leftmost fragment the pattern matches.
FirstMatch(toks, re) ==
  LET hits == {p \in 1..Len(toks) : toks[p] \in DOMAIN re}
  IN  IF hits = {} THEN 0 ELSE CHOOSE p \in hits : \A q \in hits : p <= q

declared_charset(b) ==
  LET m1 == FirstMatch(b.toks, META_CHARSET_RE)
      m2 == FirstMatch(b.toks, HTTP_EQUIV_RE)
  IN  IF m1 # 0 THEN META_CHARSET_RE[b.toks[m1]]
      ELSE IF m2 # 0 THEN HTTP_EQUIV_RE[b.toks[m2]]
      ELSE ""

\* re.sub(pattern, '<meta charset="utf-8">', text): every match replaced.
SubMeta(toks, matched) ==
  [p \in 1..Len(toks) |-> IF toks[p] \in matched THEN "mU" ELSE toks[p]]

\* re.sub(r'<head([^>]*)>', r'<head\1>\n<meta charset="utf-8">', count=1).
InsertAfterHead(toks) ==
  LET heads == {p \in 1..Len(toks) : toks[p] = "head"}
  IN  IF heads = {} THEN toks
      ELSE LET h == CHOOSE p \in heads : \A q \in heads : p <= q
           IN  SubSeq(toks, 1, h) \o <<"mU">> \o SubSeq(toks, h + 1, Len(toks))

ensure_meta_utf8(text, is_html) ==
  IF ~is_html THEN text
  ELSE LET t1 == SubMeta(text.toks, META_ANY_SUB)
           t2 == SubMeta(t1, META_HTTP_SUB)
           t3 == IF \E p \in 1..Len(t2) : t2[p] \in META_UTF8_SEARCH
                 THEN t2 ELSE InsertAfterHead(t2)
       IN  [text EXCEPT !.toks = t3]

\* What decoding the bytes under a single-byte encoding and encoding the
\* text as UTF-8 does to the payload (iconv -f <single-byte> -t UTF-8, and
\* data.decode("latin-1") written back with encoding="utf-8").
Transcode(b) ==
  [b EXCEPT !.bytes = CASE b.bytes \in {"legacy", "bom"} -> "utf8"
                        [] b.bytes = "utf8"             -> "moji"
                        [] OTHER                        -> b.bytes]

\* The fixed part of the candidate list (line 115).
FALLBACKS == <<"CP1252", "ISO-8859-1", "CP1250", "ISO-8859-13", "CP865", "MAC-CENTRALEUROPE">>

\* OrderedFrom with the seen set holding the names as written, not as
\* normalized: `if c not in seen` for `if n not in seen`.
RECURSIVE OrderedFromRaw(_, _, _)
OrderedFromRaw(candidates, seen, ordered) ==
  IF candidates = <<>> THEN ordered
  ELSE LET c == Head(candidates)
           n == IF c # "" THEN normalize(c) ELSE ""
       IN  IF n # "" /\ c \notin seen
           THEN OrderedFromRaw(Tail(candidates), seen \cup {c}, Append(ordered, n))
           ELSE OrderedFromRaw(Tail(candidates), seen, ordered)

\* Lines 116-120: the loop over the candidates, with its seen set.
RECURSIVE OrderedFrom(_, _, _)
OrderedFrom(candidates, seen, ordered) ==
  IF candidates = <<>> THEN ordered
  ELSE LET c == Head(candidates)
           n == IF c # "" THEN normalize(c) ELSE ""
       IN  IF n # "" /\ n \notin seen
           THEN OrderedFrom(Tail(candidates), seen \cup {n}, Append(ordered, n))
           ELSE OrderedFrom(Tail(candidates), seen, ordered)

Candidates(dec, det) == <<dec, det>> \o FALLBACKS

Ordered(dec, det) == OrderedFrom(Candidates(dec, det), {}, <<>>)

\* AlreadyUtf8 without the second half of line 107's test: a file that
\* declares a charset is never skipped.
AlreadyUtf8Undeclared(data, dec) == is_valid_utf8(data) /\ dec = ""

\* Line 107: the file needs no conversion.
AlreadyUtf8(data, dec) ==
  is_valid_utf8(data) /\ (dec = "" \/ upper(dec) \in {"UTF-8", "UTF8", "US-ASCII", "ASCII"})

\* uchardet_guess: what the detector may print for a file ("" when it is not
\* installed, fails or times out).
uchardet_guess(data) ==
  IF data = Bom THEN {"", "UTF-16"} ELSE {"", "WINDOWS-1252", "KOI8-R"}

\* subprocess.run(["iconv", "-f", enc, "-t", "UTF-8", path]): how one run may
\* end.  Any run may fail or time out.  A run from UTF-8 ends with code 0 only
\* on valid UTF-8, which it copies; a run from UTF-16 on a lone byte-order
\* mark ends with code 0 and prints nothing; a run from a single-byte encoding
\* prints the transcoded file.
iconv(data, enc) ==
  {[status |-> "error", stdout |-> Empty], [status |-> "timeout", stdout |-> Empty]}
  \cup (CASE enc = "UTF-8"  -> (IF is_valid_utf8(data)
                                THEN {[status |-> "rc0", stdout |-> data]} ELSE {})
          [] enc = "UTF-16" -> (IF data = Bom
                                THEN {[status |-> "rc0", stdout |-> Empty]} ELSE {})
          [] OTHER          -> {[status |-> "rc0", stdout |-> Transcode(data)]})

\* Lines 82-97: the bytes convert_with_iconv returns for one run of iconv.
convert_with_iconv(proc) ==
  IF proc.status = "rc0" /\ is_valid_utf8(proc.stdout) THEN proc.stdout ELSE Empty

\* ------------------------------------------------------------- state
VARIABLES
  total,     \* len(files)
  dry_run,   \* args.dry_run
  run,       \* 1: the first run of main, 2: a second run over the same directory
  i,         \* the loop index of main (line 172)
  pc,        \* where the run is
  is_html,   \* the suffix of files[i] is .html or .htm
  disk,      \* the content of files[i] on disk
  data,      \* the content of files[i] when process_file was called (line 101)
  det,       \* line 104
  k,         \* the position in ordered of enc in the loop of line 122 (0 before it)
  text,      \* the text handed to write_text
  ret,       \* the outcome process_file returns once the write is done
  msg,       \* the outcome process_file returned
  written,   \* write_text has opened files[i] in this call
  passed,    \* a candidate before k ended with code 0 and valid UTF-8 and was passed over
  nlines,    \* per file, the outcome lines printed for it in this run
  raisedAt,  \* the files whose process_file raised in this run
  errs,      \* the files an ERROR line was printed for in this run
  out1       \* the outcome of the only file of the directory in run 1

vars == <<total, dry_run, run, i, pc, is_html, disk, data, det, k, text, ret,
          msg, written, passed, nlines, raisedAt, errs, out1>>

dec == declared_charset(data)

ordered == Ordered(dec, det)

\* The variables of one call of process_file, before the call and after it.
Fresh ==
  /\ det' = ""
  /\ k' = 0
  /\ text' = Empty
  /\ ret' = "-"
  /\ msg' = "-"
  /\ written' = FALSE
  /\ passed' = FALSE

\* The loop leaves files[i].  Its content is kept only where a later step
\* reads it again: in a directory of one file, which a second run revisits.
Leave ==
  /\ Fresh
  /\ is_html' = (IF total = 1 THEN is_html ELSE FALSE)
  /\ disk' = (IF total = 1 THEN disk ELSE Empty)
  /\ data' = (IF total = 1 THEN data ELSE Empty)

Init ==
  /\ total \in 1..NFiles
  /\ dry_run \in BOOLEAN
  /\ run = 1
  /\ i = 1
  /\ pc = "loop"
  /\ is_html = FALSE
  /\ disk = Empty
  /\ data = Empty
  /\ det = ""
  /\ k = 0
  /\ text = Empty
  /\ ret = "-"
  /\ msg = "-"
  /\ written = FALSE
  /\ passed = FALSE
  /\ nlines = [j \in 1..total |-> 0]
  /\ raisedAt = {}
  /\ errs = {}
  /\ out1 = "-"

\* ------------------------------------------------------------- main
\* Lines 172-175: the loop takes files[i] and calls process_file.  The model
\* keeps the content of the file under the loop only: process_file reads and
\* writes no other file.  In the first run the file holds any content.
NextFile ==
  /\ pc = "loop" /\ i <= total /\ run = 1
  /\ \E h \in BOOLEAN, c \in Contents(IF total = 1 THEN MaxLen ELSE DirLen) :
       /\ is_html' = h
       /\ disk' = c
       /\ data' = c
  /\ pc' = "read"
  /\ Fresh
  /\ UNCHANGED <<total, dry_run, run, i, nlines, raisedAt, errs, out1>>

\* Lines 172-175 in the second run: the file holds what the first run left.
Revisit ==
  /\ pc = "loop" /\ i <= total /\ run = 2
  /\ data' = disk
  /\ pc' = "read"
  /\ Fresh
  /\ UNCHANGED <<total, dry_run, run, i, is_html, disk, nlines, raisedAt, errs, out1>>

\* Line 183: the loop is over.
Finish ==
  /\ pc = "loop" /\ i > total
  /\ pc' = "done"
  /\ UNCHANGED <<total, dry_run, run, i, is_html, disk, data, det, k, text, ret,
                 msg, written, passed, nlines, raisedAt, errs, out1>>

\* The tool is run again on the same directory with the same arguments.  The
\* second run is followed on a directory of one file, whose content is kept.
Again ==
  /\ pc = "done" /\ run = 1 /\ total = 1
  /\ run' = 2
  /\ i' = 1
  /\ pc' = "loop"
  /\ nlines' = [j \in 1..total |-> 0]
  /\ raisedAt' = {}
  /\ errs' = {}
  /\ UNCHANGED <<total, dry_run, is_html, disk, data, det, k, text, ret, msg,
                 written, passed, out1>>

\* Report without line 176: the outcome is dropped.
ReportSilently ==
  /\ pc = "returned"
  /\ out1' = (IF run = 1 /\ total = 1 THEN msg ELSE out1)
  /\ i' = i + 1
  /\ pc' = "loop"
  /\ Leave
  /\ UNCHANGED <<total, dry_run, run, nlines, raisedAt, errs>>

\* Line 176: process_file returned and its outcome line is printed.
Report ==
  /\ pc = "returned"
  /\ nlines' = [nlines EXCEPT ![i] = @ + 1]
  /\ out1' = (IF run = 1 /\ total = 1 THEN msg ELSE out1)
  /\ i' = i + 1
  /\ pc' = "loop"
  /\ Leave
  /\ UNCHANGED <<total, dry_run, run, raisedAt, errs>>

\* ReportError with a break after line 181: the loop ends at the first error.
ReportErrorAndStop ==
  /\ pc = "raised"
  /\ nlines' = [nlines EXCEPT ![i] = @ + 1]
  /\ errs' = errs \cup {i}
  /\ out1' = (IF run = 1 /\ total = 1 THEN "ERROR" ELSE out1)
  /\ i' = total + 1
  /\ pc' = "loop"
  /\ Leave
  /\ UNCHANGED <<total, dry_run, run, raisedAt>>

\* Lines 180-181: process_file raised an Exception; ERROR is printed and the
\* loop goes on.
ReportError ==
  /\ pc = "raised"
  /\ nlines' = [nlines EXCEPT ![i] = @ + 1]
  /\ errs' = errs \cup {i}
  /\ out1' = (IF run = 1 /\ total = 1 THEN "ERROR" ELSE out1)
  /\ i' = i + 1
  /\ pc' = "loop"
  /\ Leave
  /\ UNCHANGED <<total, dry_run, run, raisedAt>>

\* Lines 177-179: KeyboardInterrupt.  The signal arrives between any two steps
\* of the run; no handler below main catches it (the handlers of lines 48, 95
\* and 145 catch Exception, which KeyboardInterrupt is not), and the process
\* exits: what it leaves is the disk and the lines it printed.
Interrupt ==
  /\ pc \in {"loop", "read", "conv", "fallback", "w_open", "w_write", "returned", "raised"}
  /\ pc' = "interrupted"
  /\ det' = ""
  /\ k' = 0
  /\ ret' = "-"
  /\ passed' = FALSE
  /\ UNCHANGED <<total, dry_run, run, i, is_html, disk, data, text, msg, written,
                 nlines, raisedAt, errs, out1>>

\* --------------------------------------------------------- process_file
\* process_file raises: control goes to the handler of line 180.
Raise ==
  /\ pc' = "raised"
  /\ raisedAt' = raisedAt \cup {i}
  /\ UNCHANGED <<msg>>

\* process_file returns m.
Return(m) ==
  /\ pc' = "returned"
  /\ msg' = m
  /\ UNCHANGED <<raisedAt>>

\* Lines 100-120: the file is read (read_bytes raises on a file that cannot
\* be read), the charsets are looked up, and a file that is UTF-8 already is
\* skipped, after its metadata is rewritten when it is markup.
Read ==
  /\ pc = "read"
  /\ \/ /\ Raise
        /\ UNCHANGED <<det, k, text, ret>>
     \/ \E d \in uchardet_guess(data) :
          /\ det' = d
          /\ IF AlreadyUtf8(data, dec)
             THEN IF ~dry_run /\ is_html
                  THEN /\ text' = ensure_meta_utf8(data, TRUE)
                       /\ ret' = "SKIP"
                       /\ pc' = "w_open"
                       /\ UNCHANGED <<k, msg, raisedAt>>
                  ELSE /\ Return("SKIP")
                       /\ UNCHANGED <<k, text, ret>>
             ELSE /\ pc' = "conv"
                  /\ UNCHANGED <<k, text, ret, msg, raisedAt>>
  /\ UNCHANGED <<total, dry_run, run, i, is_html, disk, data, written,
                 passed, nlines, errs, out1>>

\* Lines 122-125: the loop over the candidates from position kk on, up to the
\* first one whose output is kept, given the bytes and the list.  Each element
\* is one way the loop may go: the position it stops at (past the list when no
\* output was kept), the output kept there, and whether a run that ended with
\* code 0 and valid UTF-8 was passed over on the way.
RECURSIVE TryFrom(_, _, _, _)
TryFrom(dat, ord, kk, p) ==
  IF kk > Len(ord) THEN {[k |-> kk, out |-> Empty, passed |-> p]}
  ELSE LET procs == iconv(dat, ord[kk])
           kept == {proc \in procs : convert_with_iconv(proc) # Empty}
           after == {p \/ (proc.status = "rc0" /\ is_valid_utf8(proc.stdout)) :
                       proc \in procs \ kept}
       IN  {[k |-> kk, out |-> convert_with_iconv(proc), passed |-> p] : proc \in kept}
           \cup UNION {TryFrom(dat, ord, kk + 1, q) : q \in after}

\* Lines 122-135: the loop over the candidates.
Convert ==
  /\ pc = "conv"
  /\ \E r \in TryFrom(data, ordered, 1, FALSE) :
       /\ k' = r.k
       /\ passed' = r.passed
       /\ IF r.out = Empty
          THEN /\ pc' = "fallback"
               /\ UNCHANGED <<text, ret, msg, raisedAt>>
          ELSE IF dry_run
          THEN /\ Return("OK-DRY")
               /\ UNCHANGED <<text, ret>>
          ELSE /\ text' = ensure_meta_utf8(r.out, is_html)
               /\ ret' = "OK"
               /\ pc' = "w_open"
               /\ UNCHANGED <<msg, raisedAt>>
  /\ UNCHANGED <<total, dry_run, run, i, is_html, disk, data, det, written,
                 nlines, errs, out1>>

\* Fallback without the test of line 142: the file is written in a dry run too.
FallbackWritesInDryRun ==
  /\ pc = "fallback"
  /\ text' = ensure_meta_utf8(Transcode(data), is_html)
  /\ ret' = "OK*"
  /\ pc' = "w_open"
  /\ UNCHANGED <<msg, raisedAt>>
  /\ UNCHANGED <<total, dry_run, run, i, is_html, disk, data, det, k,
                 written, passed, nlines, errs, out1>>

\* Lines 138-144: the last resort, latin-1.
Fallback ==
  /\ pc = "fallback"
  /\ text' = ensure_meta_utf8(Transcode(data), is_html)
  /\ IF ~dry_run
     THEN /\ ret' = "OK*"
          /\ pc' = "w_open"
          /\ UNCHANGED <<msg, raisedAt>>
     ELSE /\ Return("OK*")
          /\ UNCHANGED <<ret>>
  /\ UNCHANGED <<total, dry_run, run, i, is_html, disk, data, det, k,
                 written, passed, nlines, errs, out1>>

\* An OSError out of write_text: inside the try of line 138 it is caught at
\* line 145 and FAIL is returned; anywhere else it leaves process_file.
WriteFails ==
  IF ret = "OK*" THEN Return("FAIL") ELSE Raise

\* path.write_text, first half: open(path, "w") truncates the file, or raises.
WriteOpen ==
  /\ pc = "w_open"
  /\ \/ /\ disk' = Empty
        /\ written' = TRUE
        /\ pc' = "w_write"
        /\ UNCHANGED <<msg, raisedAt>>
     \/ /\ WriteFails
        /\ UNCHANGED <<disk, written>>
  /\ UNCHANGED <<total, dry_run, run, i, is_html, data, det, k, text, ret,
                 passed, nlines, errs, out1>>

\* path.write_text, second half: the text is written and the file closed, or
\* the write raises (disk full, I/O error) and the file stays as opened.
WriteClose ==
  /\ pc = "w_write"
  /\ \/ /\ disk' = text
        /\ Return(ret)
     \/ /\ WriteFails
        /\ UNCHANGED <<disk>>
  /\ UNCHANGED <<total, dry_run, run, i, is_html, data, det, k, text, ret,
                 written, passed, nlines, errs, out1>>

Next ==
  \/ NextFile
  \/ Revisit
  \/ Finish
  \/ Again
  \/ Report
  \/ ReportError
  \/ Interrupt
  \/ Read
  \/ Convert
  \/ Fallback
  \/ WriteOpen
  \/ WriteClose

Spec == Init /\ [][Next]_vars

\* ------------------------------------------------------------- claims
\* The <meta ...> fragments: the charset-metadata region of a file.
MetaTok == {"mU", "mUq", "mL", "mH", "mS"}

\* A content without its charset-metadata region.
OutsideMeta(c) == [c EXCEPT !.toks = SelectSeq(c.toks, LAMBDA t : t \notin MetaTok)]

\* The positions of the charset declarations of a content that denote UTF-8,
\* and of those that denote another encoding.
Utf8Decls(c) ==
  {p \in 1..Len(c.toks) : c.toks[p] \in DOMAIN META_CHARSET_RE
                          /\ normalize(META_CHARSET_RE[c.toks[p]]) = "UTF-8"}

LegacyDecls(c) ==
  {p \in 1..Len(c.toks) : c.toks[p] \in DOMAIN META_CHARSET_RE
                          /\ normalize(META_CHARSET_RE[c.toks[p]]) # "UTF-8"}

\* C1: with dry-run enabled the file under process_file is never opened for
\* writing and its content on disk stays the content that was read, whatever
\* the outcome.
C1_DryRunNeverWrites == dry_run => (disk = data /\ ~written)

\* C1 witness: a dry run returned OK* for a markup file whose rewrite would
\* have changed it.
C1_Witness ==
  /\ dry_run /\ pc = "returned" /\ msg = "OK*" /\ is_html
  /\ text # data /\ disk = data

\* C2: when a first run that was no dry run returned OK or OK* for a file,
\* process_file returns SKIP for it in the second run.
C2_SecondRunSkips ==
  (run = 2 /\ ~dry_run /\ pc = "returned" /\ out1 \in {"OK", "OK*"}) => msg = "SKIP"

\* C3: after a non-dry-run call on a markup file that returned anything but
\* FAIL, the file holds exactly one UTF-8 charset declaration, right after the
\* head tag, and no legacy declaration.
C3_OneUtf8DeclAfterHead ==
  (pc = "returned" /\ ~dry_run /\ is_html /\ msg # "FAIL") =>
     /\ Cardinality(Utf8Decls(disk)) = 1
     /\ LegacyDecls(disk) = {}
     /\ \A p \in Utf8Decls(disk) : p > 1 /\ disk.toks[p - 1] = "head"

\* C4 as claimed: when a run of main ends, by reaching line 183 or by a
\* cancellation, every enumerated file has exactly one outcome line.
C4_OneLineInEveryRun ==
  pc \in {"done", "interrupted"} => \A j \in 1..total : nlines[j] = 1

\* C4 as amended: no file ever has more than one outcome line; a run that
\* reaches line 183 has printed exactly one for every file; a cancelled run
\* has printed exactly one for every file before files[i] and none from
\* files[i] on.
C4_OneLinePerFile ==
  /\ \A j \in 1..total : nlines[j] <= 1
  /\ pc = "done" => \A j \in 1..total : nlines[j] = 1
  /\ pc = "interrupted" => \A j \in 1..total : nlines[j] = (IF j < i THEN 1 ELSE 0)

\* C4 witness: a run over NFiles files ended at line 183, with an ERROR line
\* for some files and another outcome for the others.
C4_Witness ==
  pc = "done" /\ total = NFiles /\ errs # {} /\ errs # 1..total

\* C5: every file whose process_file raised has its ERROR line once the loop
\* has left it, and a run that reaches line 183 has printed a line for every
\* file after it.
C5_ErrorThenContinue ==
  /\ \A j \in raisedAt : j < i => (j \in errs /\ nlines[j] = 1)
  /\ pc = "done" => \A r \in raisedAt : \A j \in (r + 1)..total : nlines[j] = 1

\* C5 witness: process_file raised on the first file and the run went on to
\* the end over a later file that did not raise.
C5_Witness ==
  pc = "done" /\ 1 \in raisedAt /\ total >= 2 /\ total \notin raisedAt

\* C6: when a cancellation stops the run and no write failed, the file under
\* process_file holds the content that was read or the complete text handed
\* to write_text.
C6_CancelLeavesWholeFile ==
  (pc = "interrupted" /\ i \notin raisedAt /\ msg # "FAIL") =>
     (disk = data \/ (written /\ disk = text))

\* C7: when process_file returns FAIL the file holds the content that was
\* read.
C7_FailLeavesFile == (pc = "returned" /\ msg = "FAIL") => disk = data

NormalizedCandidates == [p \in 1..(2 + Len(FALLBACKS)) |-> normalize(Candidates(dec, det)[p])]

\* C9: the candidate list holds no empty name and no name twice; its names are
\* the normalized non-empty entries of [declared, detected, CP1252, ISO-8859-1,
\* CP1250, ISO-8859-13, CP865, MAC-CENTRALEUROPE]; and they stand in the order
\* of their first occurrence there.
C9_CandidateList ==
  pc \in {"conv", "fallback"} =>
    LET n == NormalizedCandidates
        o == ordered
        kept == {p \in DOMAIN n : n[p] # "" /\ \A q \in 1..(p - 1) : n[q] # n[p]}
    IN  /\ \A p \in DOMAIN o : o[p] # ""
        /\ \A p, q \in DOMAIN o : p # q => o[p] # o[q]
        /\ {o[p] : p \in DOMAIN o} = {n[p] : p \in DOMAIN n} \ {""}
        /\ Len(o) = Cardinality(kept)
        /\ \A r \in DOMAIN o :
             \E p \in kept : n[p] = o[r] /\ Cardinality({q \in kept : q < p}) = r - 1

\* C9 witness: the declared and the detected name are different spellings of
\* one encoding that the fixed list holds too, and the list has six names.
C9_Witness ==
  /\ pc = "conv" /\ dec # "" /\ det # "" /\ dec # det
  /\ normalize(dec) = normalize(det) /\ Len(ordered) = 6

\* C10: the encoding an OK or OK-DRY outcome names is the earliest candidate
\* whose run ended with code 0 and valid UTF-8, and OK* is returned only when
\* no candidate's run ended so.
C10_EarliestAccepted ==
  (pc = "returned" /\ msg \in {"OK", "OK-DRY", "OK*"}) => ~passed

====
